---- MODULE Spec2Model ----
\* Model of app.py, the Streamlit script of the local RAG demo: the staging
\* directory docs/, the Qdrant collection "document", the per-session singletons
\* kept in st.session_state, and the four interactions of the page (upload form,
\* "Update Document Store", "Show Document Store", "Generate Answer").
\*
\* One script run handles one UI event of one browser session.  Streamlit runs
\* every session's script in a thread of its own, so steps of different sessions
\* interleave at the blocking external calls; the script of one session runs
\* from top to bottom.
EXTENDS Integers, Sequences, FiniteSets

\* ---------------------------------------------------------------- bounds

NumSessions == 2        \* browser sessions served by the one Streamlit process
MaxReplies == 2         \* longest reply list the generator component returns

Sessions == 1..NumSessions

\* ---------------------------------------------------------------- files

\* A file name is its stem and its extension: uploaded_file.name.
CsvData == [stem |-> "data", ext |-> "csv"]
CsvMore == [stem |-> "more", ext |-> "csv"]
PdfPaper == [stem |-> "paper", ext |-> "pdf"]
Names == {CsvData, CsvMore, PdfPaper}

\* The bytes of a file, as its lines.  BadBytes cannot be decoded or parsed.
TwoRows == <<"a", " ", "b">>
BadBytes == <<"#undecodable">>
Contents == {TwoRows, BadBytes}

Range(f) == {f[i] : i \in DOMAIN f}

\* file.endswith(".csv") / file.endswith(".pdf")
EndsWith(file, ext) == file.ext = ext

\* Whether a converter can read the bytes (utf-8 decoding, PDF parsing).
Readable(bytes) == "#undecodable" \notin Range(bytes)

\* The rows a CSV reader would find in the bytes: its non-blank lines.
Strip(line) == IF line = " " THEN "" ELSE line
Rows(bytes) == SelectSeq(bytes, LAMBDA line : Strip(line) # "")

\* ---------------------------------------------------------------- documents

\* A haystack Document ready for Qdrant.  Its id is the hash of content and
\* meta, so a Document is identified by these two; embedding is <<>> until an
\* embedder has set it.
NoEmbedding == <<>>

Document(content, meta) == [content |-> content, meta |-> meta, embedding |-> NoEmbedding]

\* The sentence-transformers model: the bag of words of the text.
Embedding(text) == {Strip(w) : w \in Range(text)} \ {""}

\* SentenceTransformersDocumentEmbedder.run
DocumentEmbedder(documents) == {[d EXCEPT !.embedding = <<Embedding(d.content)>>] : d \in documents}

\* CSVToDocument().run(sources=files): one Document per readable source holding
\* the decoded text of the whole file; an unreadable source is logged and skipped.
CSVToDocumentSkipped(files, dir) == {f \in files : ~Readable(dir[f])}

\* A converter that makes one Document of every row instead.
CSVToDocumentPerRow(files, dir) ==
    UNION {{Document(<<row>>, f) : row \in Range(Rows(dir[f]))} : f \in files \ CSVToDocumentSkipped(files, dir)}

CSVToDocument(files, dir) == {Document(dir[f], f) : f \in files \ CSVToDocumentSkipped(files, dir)}

\* PyPDFToDocument().run(sources=files): one Document per readable source holding
\* the extracted text; an unreadable source is logged and skipped.
PyPDFToDocumentSkipped(files, dir) == {f \in files : ~Readable(dir[f])}

PyPDFToDocument(files, dir) == {Document(dir[f], f) : f \in files \ PyPDFToDocumentSkipped(files, dir)}

\* DocumentCleaner() with its defaults: empty lines and extra whitespace go.
CleanText(text) == Rows(text)

DocumentCleaner(documents) == {Document(CleanText(d.content), d.meta) : d \in documents}

\* The pipeline with the converter connected to the embedder, the cleaner left out.
PdfPipelineNoCleaner(files, dir) == DocumentEmbedder(PyPDFToDocument(files, dir))

\* pipeline_pdf_store up to the writer: converter -> cleaner -> embedder.
PdfPipeline(files, dir) == DocumentEmbedder(DocumentCleaner(PyPDFToDocument(files, dir)))

\* pipeline_csv_store up to the writer: embedder.
CsvPipeline(documents) == DocumentEmbedder(documents)

\* ---------------------------------------------------------------- store

\* The collection is a bag of points: point -> number of copies.
EmptyStore == [d \in {} |-> 0]

Points(st) == DOMAIN st

\* A writer that inserts a new point for every Document, whatever its id.
WriteDocumentsInsert(st, documents) ==
    [d \in Points(st) \cup documents |->
        (IF d \in Points(st) THEN st[d] ELSE 0) + (IF d \in documents THEN 1 ELSE 0)]

\* DocumentWriter(document_store) with the default policy: QdrantDocumentStore
\* upserts, point id = Document id.
WriteDocuments(st, documents) == [d \in Points(st) \cup documents |-> IF d \in documents THEN 1 ELSE st[d]]

\* document_store.filter_documents(): every stored point.
FilterDocuments(st) == st

\* QdrantDocumentStore(index="document", recreate_index=True, embedding_dim=768):
\* setting up the client drops the collection and creates it anew.
RecreateIndex(st) == EmptyStore

\* ---------------------------------------------------------------- retrieval

\* What the user types into the question box.
Queries == {<<"b">>, <<"z">>}

\* The retriever's default top_k.
top_k == 10

\* Similarity of a query embedding and a stored point.
Score(query_embedding, d) == Cardinality(query_embedding \cap d.embedding[1])

\* The id of a point: a hash of the Document's content and meta, here a code
\* that is different for different Documents.
PointId(d) == 10 * (CASE d.meta = CsvData -> 1 [] d.meta = CsvMore -> 2 [] OTHER -> 3) + Len(d.content)

\* Whether point d comes before point e in the retriever's answer: better
\* score first, points of equal score in the order of their ids.
Before(d, e, query_embedding) ==
    \/ Score(query_embedding, d) > Score(query_embedding, e)
    \/ Score(query_embedding, d) = Score(query_embedding, e) /\ PointId(d) <= PointId(e)

RECURSIVE Ranked(_, _)
Ranked(S, query_embedding) ==
    IF S = {} THEN <<>>
    ELSE LET best == CHOOSE d \in S : \A e \in S : Before(d, e, query_embedding)
         IN <<best>> \o Ranked(S \ {best}, query_embedding)

\* QdrantEmbeddingRetriever.run(query_embedding): the top_k points, best first.
Retrieve(st, query_embedding) ==
    LET all == Ranked(Points(st), query_embedding)
    IN SubSeq(all, 1, IF Len(all) < top_k THEN Len(all) ELSE top_k)

\* PromptBuilder(template).run(documents, query): the documents' contents in
\* the order given, then the question.
PromptBuilder(documents, query) ==
    [documents |-> [i \in 1..Len(documents) |-> documents[i].content], question |-> query]

\* Displaying the last reply instead of the first.
DisplayedLast(replies) == replies[Len(replies)]

\* st.write(result["generator"]["replies"][0])
Displayed(replies) == replies[1]

\* What the LLM server can answer: a list of one or more replies, each a text
\* of its own (reply i is the text i); Unreachable stands for no answer at all.
ReplyLists == {[i \in 1..n |-> i] : n \in 1..MaxReplies}
Unreachable == <<>>

\* ---------------------------------------------------------------- state

VARIABLES
    docsExists,  \* whether the staging directory docs/ exists
    docs,        \* the staging directory: file name -> bytes
    latest,      \* history: file name -> bytes of the last upload submitted under it
    store,       \* the Qdrant collection "document"
    pc,          \* per session: "new" (script never ran), "idle", "upd_pdf" (Update between its two writes)
    connected,   \* per session: whether its QdrantDocumentStore has set up its client
    shown,       \* history: what Show listed, while no Update has run since
    last         \* history: the step taken last, what it did and what it displayed

vars == <<docsExists, docs, latest, store, pc, connected, shown, last>>

NoFiles == [n \in {} |-> BadBytes]
NoFile == [name |-> [stem |-> "", ext |-> ""], bytes |-> <<>>]
UploadedFiles == [name : Names, bytes : Contents]

NotShown == [valid |-> FALSE, docs |-> EmptyStore]

Init ==
    /\ docsExists = FALSE
    /\ docs = NoFiles
    /\ latest = NoFiles
    /\ store = EmptyStore
    /\ pc = [s \in Sessions |-> "new"]
    /\ connected = [s \in Sessions |-> FALSE]
    /\ shown = NotShown
    /\ last = [at |-> "new", kind |-> "start"]

\* A script that takes the next UI event while its Update is still running.
IdleAlways(s) == pc[s] # "new"

\* A session's script is between two runs: the next UI event starts a run.
Idle(s) == pc[s] = "idle"

\* The collection as session s finds it when it uses its document_store: the
\* first use sets up the client, which recreates the index.
Client(s) == IF connected[s] THEN store ELSE RecreateIndex(store)

\* First run of the script in a session: nothing is in st.session_state, so the
\* store and the three pipelines are built.  Whether QdrantDocumentStore sets
\* up its client in the constructor or at its first use depends on the
\* installed qdrant-haystack; both are modelled.
NewSession(s, eager) ==
    /\ pc[s] = "new"
    /\ pc' = [pc EXCEPT ![s] = "idle"]
    /\ connected' = [connected EXCEPT ![s] = eager]
    /\ store' = IF eager THEN RecreateIndex(store) ELSE store
    /\ last' = [at |-> pc[s], kind |-> "init"]
    /\ UNCHANGED <<docsExists, docs, latest, shown>>

\* if uploaded_file is not None and submitted
ShouldSave(uploaded_file, submitted) == uploaded_file # NoFile /\ submitted

\* Opening the file for exclusive creation: a file already there is kept.
SaveUploadNoOverwrite(dir, uploaded_file) ==
    [n \in DOMAIN dir \cup {uploaded_file.name} |->
        IF n \in DOMAIN dir THEN dir[n] ELSE uploaded_file.bytes]

\* open(os.path.join("docs", uploaded_file.name), "wb").write(uploaded_file.getbuffer())
SaveUpload(dir, uploaded_file) ==
    [n \in DOMAIN dir \cup {uploaded_file.name} |->
        IF n = uploaded_file.name THEN uploaded_file.bytes ELSE dir[n]]

\* A run of the script in which no button other than the form's may be pressed.
UploadForm(s, uploaded_file, submitted) ==
    /\ Idle(s)
    /\ IF ShouldSave(uploaded_file, submitted)
       THEN /\ docsExists' = TRUE
            /\ docs' = SaveUpload(docs, uploaded_file)
       ELSE UNCHANGED <<docsExists, docs>>
    /\ latest' = IF uploaded_file # NoFile /\ submitted
                 THEN [n \in DOMAIN latest \cup {uploaded_file.name} |->
                          IF n = uploaded_file.name THEN uploaded_file.bytes ELSE latest[n]]
                 ELSE latest
    /\ last' = [at |-> pc[s], kind |-> "upload",
                submission |-> uploaded_file # NoFile /\ submitted,
                overwrote |-> uploaded_file # NoFile /\ submitted /\ uploaded_file.name \in DOMAIN latest,
                out |-> IF ShouldSave(uploaded_file, submitted) THEN "File Uploaded Successfully" ELSE ""]
    /\ UNCHANGED <<store, pc, connected, shown>>

\* A listing that answers "no files" for a directory that is not there.
ListDirNeverFails(exists) == FALSE

\* os.listdir("docs") raises FileNotFoundError when docs/ does not exist.
ListDirFails(exists) == ~exists

\* [file for file in os.listdir("docs") if file.endswith(ext)]
ListDir(dir, ext) == {n \in DOMAIN dir : EndsWith(n, ext)}

\* What one part of "Update Document Store" did: where its session's script
\* was, the part, how it ended, whether docs/ existed, the Documents handed to
\* the writer, whether the collection was empty before, the points that were
\* there before and were written again, the sources skipped, the display.
UpdateStep(s, step, result, written, skippedSources, out) ==
    [at |-> pc[s], kind |-> "update", step |-> step, result |-> result,
     dirExisted |-> docsExists, written |-> written,
     fresh |-> Client(s) = EmptyStore,
     rewritten |-> written \cap Points(Client(s)),
     skipped |-> skippedSources, out |-> out]

\* "Update Document Store", first part: list the CSV files, convert them, run
\* pipeline_csv_store (embedder -> writer).  An exception (the listing, the
\* embedder or the store failing) ends the run: nothing after it executes.
UpdateCsv(s, reachable) ==
    /\ Idle(s)
    /\ shown' = NotShown
    /\ IF ListDirFails(docsExists)
       THEN /\ last' = UpdateStep(s, "listdir", "error", {}, {}, "FileNotFoundError")
            /\ UNCHANGED <<store, pc, connected>>
       ELSE LET files == ListDir(docs, "csv")
                documents == CSVToDocument(files, docs)
                skippedSources == CSVToDocumentSkipped(files, docs)
            IN IF ~reachable
               THEN /\ last' = UpdateStep(s, "csv", "error", {}, skippedSources, "Exception")
                    /\ UNCHANGED <<store, pc, connected>>
               ELSE /\ store' = WriteDocuments(Client(s), CsvPipeline(documents))
                    /\ connected' = [connected EXCEPT ![s] = TRUE]
                    /\ pc' = [pc EXCEPT ![s] = "upd_pdf"]
                    /\ last' = UpdateStep(s, "csv", "running", CsvPipeline(documents),
                                          skippedSources, "")
    /\ UNCHANGED <<docsExists, docs, latest>>

\* "Update Document Store", second part: list the PDF files, run
\* pipeline_pdf_store (converter -> cleaner -> embedder -> writer), report.
UpdatePdf(s, reachable) ==
    /\ pc[s] = "upd_pdf"
    /\ shown' = NotShown
    /\ pc' = [pc EXCEPT ![s] = "idle"]
    /\ LET files == ListDir(docs, "pdf")
           skippedSources == PyPDFToDocumentSkipped(files, docs)
       IN IF ~reachable
          THEN /\ last' = UpdateStep(s, "pdf", "error", {}, skippedSources, "Exception")
               /\ UNCHANGED <<store, connected>>
          ELSE /\ store' = WriteDocuments(Client(s), PdfPipeline(files, docs))
               /\ connected' = [connected EXCEPT ![s] = TRUE]
               /\ last' = UpdateStep(s, "pdf", "success", PdfPipeline(files, docs), skippedSources,
                                     "Document Store Updated Successfully")
    /\ UNCHANGED <<docsExists, docs, latest>>

\* "Show Document Store": st.write(document_store.filter_documents())
Show(s) ==
    /\ Idle(s)
    /\ store' = Client(s)
    /\ connected' = [connected EXCEPT ![s] = TRUE]
    /\ shown' = [valid |-> TRUE, docs |-> FilterDocuments(Client(s))]
    /\ last' = [at |-> pc[s], kind |-> "show", out |-> FilterDocuments(Client(s))]
    /\ UNCHANGED <<docsExists, docs, latest, pc>>

\* pipeline_retrieve.run({"embedder": {"text": query}, "builder": {"query": query}})
RunInputs(query) == [embedder |-> [text |-> query], builder |-> [query |-> query]]

\* "Generate Answer": embedder -> retriever -> builder -> generator, then the
\* first reply is displayed.  replies is what the LLM server answers; when the
\* server is unreachable the run ends with the exception and displays no reply.
GenerateAnswer(s, query, replies) ==
    /\ Idle(s)
    /\ store' = Client(s)
    /\ connected' = [connected EXCEPT ![s] = TRUE]
    /\ LET inputs == RunInputs(query)
           query_embedding == Embedding(inputs.embedder.text)
           documents == Retrieve(Client(s), query_embedding)
           prompt == PromptBuilder(documents, inputs.builder.query)
       IN last' = [at |-> pc[s], kind |-> "generate", query |-> query,
                   embedded |-> inputs.embedder.text, retrieved |-> documents,
                   prompt |-> prompt,
                   result |-> IF replies # Unreachable THEN "ok" ELSE "error",
                   replies |-> replies,
                   out |-> IF replies # Unreachable THEN Displayed(replies) ELSE 0]
    /\ UNCHANGED <<docsExists, docs, latest, pc, shown>>

Next ==
    \/ \E s \in Sessions, eager \in BOOLEAN : NewSession(s, eager)
    \/ \E s \in Sessions, uploaded_file \in UploadedFiles \cup {NoFile}, submitted \in BOOLEAN :
          UploadForm(s, uploaded_file, submitted)
    \/ \E s \in Sessions, reachable \in BOOLEAN : UpdateCsv(s, reachable)
    \/ \E s \in Sessions, reachable \in BOOLEAN : UpdatePdf(s, reachable)
    \/ \E s \in Sessions : Show(s)
    \/ \E s \in Sessions, query \in Queries, replies \in ReplyLists \cup {Unreachable} :
          GenerateAnswer(s, query, replies)

Spec == Init /\ [][Next]_vars

\* ---------------------------------------------------------------- properties

\* The last step was the CSV part of an Update that found the collection empty and wrote.
CsvWrittenIntoEmptyStore ==
    last.kind = "update" /\ last.step = "csv" /\ last.result = "running" /\ last.fresh

ReadableFiles(ext) == {f \in ListDir(docs, ext) : Readable(docs[f])}

StoredFor(f) == {d \in Points(store) : d.meta = f}

WithoutBlankLines(text) == SelectSeq(text, LAMBDA line : line \notin {"", " "})

PdfWritten == last.kind = "update" /\ last.step = "pdf" /\ last.result = "success"

C3_ShowsAgree ==
    [][(shown.valid /\ shown'.valid) => shown'.docs = shown.docs]_vars

\* C4: no step of a run, initialization included, loses a Document that is in
\* the collection (the page has no recreate action).
C4_StoreNeverWiped ==
    [][Points(store) \subseteq Points(store')]_vars

\* C5: the staging directory exists once a file was submitted and holds
\* exactly one file per submitted name, with the bytes of the last submission
\* under that name.
C5_StagingHoldsLastUploads ==
    /\ docsExists <=> DOMAIN latest # {}
    /\ DOMAIN docs = DOMAIN latest
    /\ \A n \in DOMAIN docs : docs[n] = latest[n]
    /\ last.kind = "upload" => (last.out = "File Uploaded Successfully" <=> last.submission)

C5_Witness ==
    /\ last.kind = "upload" /\ last.overwrote
    /\ Cardinality(DOMAIN docs) >= 2
    /\ \E n \in DOMAIN docs : docs[n] = BadBytes
    /\ \E n \in DOMAIN docs : docs[n] = TwoRows

\* C6: a part of an Update in which anything failed, a malformed file
\* included, ends in an error: nothing is written and the run stops.
C6_FailuresAbortUpdate ==
    last.kind = "update" =>
        /\ last.skipped # {} => last.result = "error"
        /\ last.result = "error" => last.written = {} /\ last.out # "Document Store Updated Successfully"

\* C7: Generate Answer embeds the query, retrieves with that embedding, builds
\* the prompt from the retrieved Documents' contents in retrieval order and the
\* same query, and displays the first reply of the list.
C7_GenerateAnswerFlow ==
    last.kind = "generate" =>
        /\ last.embedded = last.query
        /\ last.prompt.question = last.query
        /\ Range(last.retrieved) = Points(store)
        /\ Len(last.retrieved) = Cardinality(Points(store))
        /\ \A i, j \in 1..Len(last.retrieved) : i < j =>
              Score(Embedding(last.query), last.retrieved[i]) >= Score(Embedding(last.query), last.retrieved[j])
        /\ Len(last.prompt.documents) = Len(last.retrieved)
        /\ \A i \in 1..Len(last.retrieved) : last.prompt.documents[i] = last.retrieved[i].content
        /\ last.result = "ok" => last.out = last.replies[1]
        /\ last.result = "error" => last.replies = <<>> /\ last.out = 0

C7_Witness ==
    /\ last.kind = "generate" /\ last.result = "ok"
    /\ Len(last.replies) >= 2
    /\ Len(last.retrieved) >= 2
    /\ \E i, j \in 1..Len(last.retrieved) : last.retrieved[i].content # last.retrieved[j].content

\* The last step started a run: anything but the second part of an Update.
StartedRun(l) ==
    \/ l.kind \in {"upload", "show", "generate"}
    \/ l.kind = "update" /\ l.step # "pdf"

\* C8 as stated: no Show or Generate Answer reads the collection while any
\* Update is between its two writes.
C8_NoRunDuringAnyUpdate ==
    [][last'.kind \in {"show", "generate"} => \A t \in Sessions : pc[t] # "upd_pdf"]_vars

\* C8 amended: within a session, no run starts while that session's Update is
\* between its two writes.
C8_SessionRunsToCompletion ==
    /\ StartedRun(last) => last.at = "idle"
    /\ last.kind = "update" /\ last.step = "pdf" => last.at = "upd_pdf"

C8_Witness ==
    /\ last.kind = "show"
    /\ \E t \in Sessions : pc[t] = "upd_pdf"
    /\ Points(last.out) # {}

UpdateWrote == last.kind = "update" /\ last.result \in {"running", "success"}

\* C9 as stated: an Update that writes Documents again that are in the
\* collection leaves duplicates of them.
C9_RepeatedUpdateDuplicates ==
    UpdateWrote /\ last.rewritten # {} => \A d \in last.rewritten : store[d] >= 2

\* C9 amended: each part of an Update writes the Document of every readable
\* staged file of its kind, ingested before or not, and the collection holds
\* every point once.
C9_RepeatedUpdateRewrites ==
    /\ \A d \in Points(store) : store[d] = 1
    /\ UpdateWrote =>
          /\ \A f \in ReadableFiles(last.step) : \E d \in last.written : d.meta = f
          /\ last.written \subseteq Points(store)

C9_Witness ==
    /\ UpdateWrote
    /\ last.rewritten # {}
    /\ last.rewritten = last.written

\* C10: only a submitted upload creates docs/, and an Update started without
\* docs/ ends at the listing: error shown, nothing converted or written, the
\* collection as it was.
C10_UpdateWithoutStagingFails ==
    [][/\ (docsExists' /\ ~docsExists) => (last'.kind = "upload" /\ last'.submission)
       /\ (last'.kind = "update" /\ ~docsExists) =>
              /\ last'.step = "listdir" /\ last'.result = "error"
              /\ last'.written = {} /\ last'.skipped = {}
              /\ last'.out # "Document Store Updated Successfully"
              /\ store' = store /\ pc' = pc /\ connected' = connected]_vars

C10_Witness ==
    /\ last.kind = "update" /\ last.step = "listdir"
    /\ ~docsExists
    /\ \E s \in Sessions : pc[s] = "idle"

====
